---------------------------- MODULE Spec2Model ----------------------------
(***************************************************************************)
(* Model of the storage layer of electrs, src/src/new_index/db.rs: the     *)
(* DB handle over an ordered byte-key/byte-value engine (RocksDB), its     *)
(* open/reopen lifecycle, the compatibility marker, the per-call flush     *)
(* policy of write, the compaction controls and the two prefix cursors.   *)
(*                                                                         *)
(* The engine itself is a library; it is modelled by what its calls do to  *)
(* three things: the files of the data directory (sst, wal, walSynced),   *)
(* the memtable of the open instance (mem) and the options of the open    *)
(* instance (autoCompact).  Byte strings are sequences of naturals, a row  *)
(* is a DBRow record, a store is a set of rows with pairwise distinct     *)
(* keys, and Option<Bytes> is a set of at most one value.                 *)
(***************************************************************************)
EXTENDS Naturals, Sequences, FiniteSets

VARIABLES
    dirExists,   \* the data directory exists on disk
    sst,         \* rows persisted in the table files of the directory
    wal,         \* the write-ahead log: a sequence of records, each the rows one batch leaves
    walSynced,   \* how many leading batches of wal are fsynced
    hstate,      \* "Closed" | "Open" | "Aborted" (the process panicked)
    config,      \* the Config the handle was opened with: read_only, light_mode
    insts,       \* engine instances of this handle currently open on the directory
    mem,         \* memtable of the open instance: rows not yet in sst
    autoCompact, \* the open instance runs background compaction
    rpc,         \* position inside reopen(): "idle" | "opened"
    cursor,      \* the live cursor (ScanIterator / ReverseScanIterator) or NoCursor
    out,         \* the rows the live cursor has yielded so far
    lastOp,      \* history: the operation that produced this state, with its arguments
    shadow,      \* history: the rows written through the handle since it was opened
    bulk,        \* history: the handle has seen only fast writes and compaction calls
    wpc,         \* per writer thread: position inside write(): "idle" | "build" | "logged"
    wbatch,      \* per writer thread: the WriteBatch built so far
    wrows,       \* per writer thread: the sorted rows still to be put in the batch
    wflush,      \* per writer thread: the flush policy of the call
    wcalls,      \* history: the write calls started so far
    wdone        \* history: the batches handed to the engine, in commit order

vars == <<dirExists, sst, wal, walSynced, hstate, config, insts, mem, autoCompact,
          rpc, cursor, out, lastOp, shadow, bulk, wpc, wbatch, wrows, wflush, wcalls, wdone>>

diskVars == <<dirExists, sst, wal, walSynced>>
handleVars == <<hstate, config, insts, mem, autoCompact, rpc>>
cursorVars == <<cursor, out>>
writerVars == <<wpc, wbatch, wrows, wflush, wcalls, wdone>>

---------------------------------------------------------------------------
(* Bounds of the model.                                                    *)

MaxRows == 3        \* most data rows of a store a scan starts from
MaxBatch == 2       \* most rows of one write call
MaxWal == 2         \* most batches the log holds before the model stops logging
MaxCalls == 2       \* write calls the writer threads make in the concurrent model

---------------------------------------------------------------------------
(* Bytes, keys and rows.                                                   *)

DB_VERSION == 1

\* b"V", the key of the compatibility marker
SentinelKey == <<86>>

\* the keys and values of the stores the scans are tried on, and the prefixes
\* and bounds they are called with
ScanKeys == {<<1>>, <<1, 1>>, <<1, 2>>, <<2>>, <<2, 1>>, <<2, 2>>}
ScanVals == {<<7>>, <<8>>}
ScanArgs == ScanKeys \cup {<< >>, SentinelKey}

\* the rows the point and batch operations are tried on: one key with two
\* values, so that an overwrite changes what get returns
DataRows == {[key |-> <<1>>, value |-> <<7>>], [key |-> <<1>>, value |-> <<8>>]}
DataKeys == {r.key : r \in DataRows}

DBRow(k, v) == [key |-> k, value |-> v]

Min(a, b) == IF a < b THEN a ELSE b

\* Vec<u8> / &[u8] ordering: lexicographic, a proper prefix first
LexLess(a, b) ==
    LET n == Min(Len(a), Len(b))
        diff == {i \in 1..n : a[i] # b[i]}
    IN  IF diff = {} THEN Len(a) < Len(b)
        ELSE LET i == CHOOSE j \in diff : \A l \in diff : j <= l
             IN  a[i] < b[i]

LexLeq(a, b) == a = b \/ LexLess(a, b)

\* key.starts_with(prefix)
StartsWith(key, prefix) ==
    /\ Len(prefix) <= Len(key)
    /\ \A i \in 1..Len(prefix) : key[i] = prefix[i]

StoreKeys(store) == {r.key : r \in store}

\* the keys of a sequence of rows, and the values it holds for a key
KeysOf(rows) == {rows[i].key : i \in 1..Len(rows)}

ValuesFor(rows, k) == {rows[i].value : i \in {j \in 1..Len(rows) : rows[j].key = k}}

UniqueKeys(store) == \A r, s \in store : r.key = s.key => r = s

\* the engine's point lookup on a set of rows: Option<Bytes> as a set
Lookup(store, k) == {r.value : r \in {s \in store : s.key = k}}

\* one put applied to a set of rows: the key's previous row is replaced
PutRow(store, row) == {r \in store : r.key # row.key} \cup {row}

\* a write batch applied to a set of rows, in batch order
RECURSIVE ApplyBatch(_, _)
ApplyBatch(store, batch) ==
    IF batch = << >> THEN store
    ELSE ApplyBatch(PutRow(store, Head(batch)), Tail(batch))

\* newer rows (memtable) over older rows (table files)
Overlay(old, new) == {r \in old : r.key \notin StoreKeys(new)} \cup new

\* the log record of a batch: the rows the batch leaves, one per key
LogRecord(batch) == ApplyBatch({}, batch)

\* the records of a log applied in log order
RECURSIVE Replay(_, _)
Replay(store, log) ==
    IF log = << >> THEN store
    ELSE Replay(Overlay(store, Head(log)), Tail(log))

\* what the open instance reads
View == Overlay(sst, mem)

\* the rows of a store in the engine's iteration order: ascending by key
RECURSIVE SortedRows(_)
SortedRows(store) ==
    IF store = {} THEN << >>
    ELSE LET least == CHOOSE r \in store : \A s \in store : LexLeq(r.key, s.key)
         IN  <<least>> \o SortedRows(store \ {least})

---------------------------------------------------------------------------
(* The compatibility marker.                                               *)

\* bincode::serialize_little(&u32): four bytes, least significant first
SerializeLittle(v) ==
    <<v % 256, (v \div 256) % 256, (v \div 65536) % 256, (v \div 16777216) % 256>>

\* mutant of CompatibilityBytes: the light-mode byte is never appended
CompatibilityBytesNoLight(cfg) == SerializeLittle(DB_VERSION)

\* compatibility_bytes of verify_compatibility
CompatibilityBytes(cfg) ==
    IF cfg.light_mode THEN Append(SerializeLittle(DB_VERSION), 1)
    ELSE SerializeLittle(DB_VERSION)

Configs == [read_only : BOOLEAN, light_mode : BOOLEAN]

\* the threads that share the handle in the concurrent model
Writers == {"w1", "w2"}

---------------------------------------------------------------------------
(* The engine: what each library call does to the directory and to the    *)
(* memtable of the open instance.  An engine state is a record of the     *)
(* directory's files and the instance's memtable.                         *)

Eng == [dir |-> dirExists, sst |-> sst, wal |-> wal, synced |-> walSynced, mem |-> mem]

\* db.get
EngineGet(e, key) == Lookup(Overlay(e.sst, e.mem), key)

\* db.write_opt, first half: the batch is appended to the log as one record
\* unless the log is disabled, and the log is fsynced up to and including this
\* record when sync is set
EngineLog(e, batch, sync, disableWal) ==
    [e EXCEPT !.wal = IF disableWal THEN @ ELSE Append(@, LogRecord(batch)),
              !.synced = IF disableWal \/ ~sync THEN @ ELSE Len(e.wal) + 1]

\* db.write_opt, second half: the rows of the batch reach the memtable and
\* become visible together
EngineApply(e, batch) == [e EXCEPT !.mem = ApplyBatch(e.mem, batch)]

\* db.write_opt / db.put / db.put_opt
EngineWrite(e, batch, sync, disableWal) ==
    EngineApply(EngineLog(e, batch, sync, disableWal), batch)

\* db.flush: the memtable becomes table files and the log it covers is dropped
EngineFlush(e) ==
    [e EXCEPT !.sst = Overlay(e.sst, e.mem), !.mem = {}, !.wal = << >>, !.synced = 0]

\* mutant of EngineCompactRange: the files are rewritten without the memtable
\* being flushed first, and the memtable is discarded
CompactRangeDropsMemtable(e) == [e EXCEPT !.mem = {}]

\* db.compact_range(None, None): flushes the memtable, then rewrites the files
EngineCompactRange(e) == EngineFlush(e)

\* the instance holds rows the log does not cover (written with the log disabled)
HasUnpersisted(e) == e.mem # Replay({}, e.wal)

\* dropping a writable instance: rows the log does not cover are flushed first
EngineDrop(e, read_only) ==
    IF read_only THEN [e EXCEPT !.mem = {}]
    ELSE IF HasUnpersisted(e) THEN EngineFlush(e)
    ELSE [e EXCEPT !.mem = {}]

\* the process dies with the instance open: the memtable is gone and the log
\* keeps its first n batches, at least the fsynced ones
EngineKill(e, n) ==
    [e EXCEPT !.mem = {}, !.wal = SubSeq(e.wal, 1, n), !.synced = Min(e.synced, n)]

\* mutant of CreateIfMissing: the negation is lost
CreateIfMissingInverted(cfg) == cfg.read_only

\* db_opts.create_if_missing(!config.read_only)
CreateIfMissing(cfg) == ~cfg.read_only

\* rocksdb::DB::open succeeds: the directory lock is free, and the directory
\* exists or may be created
CanOpen(e, cfg, lockHeld) == ~lockHeld /\ (e.dir \/ CreateIfMissing(cfg))

\* rocksdb::DB::open_for_read_only succeeds: the directory exists; it takes no
\* lock and creates nothing
CanOpenForReadOnly(e) == e.dir

\* rocksdb::DB::open: creates the directory if missing, replays the log into
\* table files
EngineOpen(e) ==
    [dir |-> TRUE, sst |-> Replay(e.sst, e.wal), wal |-> << >>, synced |-> 0, mem |-> {}]

\* rocksdb::DB::open_for_read_only: replays the log into memory only
EngineOpenForReadOnly(e) == [e EXCEPT !.mem = Replay({}, e.wal)]

---------------------------------------------------------------------------
(* The DB handle: each method as a function of the engine state.           *)

Flushes == {"Enable", "Disable"}

\* the arrangements of the rows at the given positions in ascending key order:
\* a row with the least key comes first, whichever of the equal ones it is
RECURSIVE Arrangements(_, _)
Arrangements(rows, positions) ==
    IF positions = {} THEN {<< >>}
    ELSE LET firsts == {i \in positions : \A j \in positions : LexLeq(rows[i].key, rows[j].key)}
         IN  UNION {{<<rows[i]>> \o rest : rest \in Arrangements(rows, positions \ {i})} :
                    i \in firsts}

\* mutant of SortUnstableByKey: the last row supplied is lost by the sort
SortDropsLast(rows) == Arrangements(rows, 1..(Len(rows) - 1))

\* rows.sort_unstable_by(|a, b| a.key.cmp(&b.key)): some arrangement of the rows
\* ascending by key; the order of rows with equal keys is not specified
SortUnstableByKey(rows) == Arrangements(rows, 1..Len(rows))

\* mutant of BatchPut: the key is put in the value's place
BatchPutKeyTwice(batch, row) == Append(batch, DBRow(row.key, row.key))

\* batch.put(&row.key, &row.value)
BatchPut(batch, row) == Append(batch, row)

\* the for loop of write: every row is put in the batch, in order
RECURSIVE BuildBatch(_, _)
BuildBatch(batch, rows) ==
    IF rows = << >> THEN batch
    ELSE BuildBatch(BatchPut(batch, Head(rows)), Tail(rows))

\* DB::get
DbGet(e, key) == EngineGet(e, key)

\* mutant of DbPut: the read-only guard is missing
DbPutUnguarded(e, read_only_mode, key, value) ==
    EngineWrite(e, <<DBRow(key, value)>>, FALSE, FALSE)

\* DB::put
DbPut(e, read_only_mode, key, value) ==
    IF read_only_mode THEN e
    ELSE EngineWrite(e, <<DBRow(key, value)>>, FALSE, FALSE)

\* DB::put_sync
DbPutSync(e, read_only_mode, key, value) ==
    IF read_only_mode THEN e
    ELSE EngineWrite(e, <<DBRow(key, value)>>, TRUE, FALSE)

\* mutant of DbWrite: the durable policy no longer syncs the log
DbWriteNeverSynced(e, read_only_mode, sorted, flush) ==
    IF read_only_mode THEN e
    ELSE LET do_flush == (flush = "Enable")
         IN  EngineWrite(e, BuildBatch(<< >>, sorted), FALSE, ~do_flush)

\* DB::write after the sort: the batch is built and committed with
\* set_sync(do_flush), disable_wal(!do_flush)
DbWrite(e, read_only_mode, sorted, flush) ==
    IF read_only_mode THEN e
    ELSE LET do_flush == (flush = "Enable")
         IN  EngineWrite(e, BuildBatch(<< >>, sorted), do_flush, ~do_flush)

\* mutant of DbFlush: the engine's flush is not called
DbFlushSkipped(e, read_only_mode) == e

\* DB::flush
DbFlush(e, read_only_mode) ==
    IF read_only_mode THEN e ELSE EngineFlush(e)

\* DB::full_compaction
DbFullCompaction(e, read_only_mode) ==
    IF read_only_mode THEN e ELSE EngineCompactRange(e)

\* DB::enable_auto_compaction: the instance's background compaction afterwards
DbEnableAutoCompaction(auto, read_only_mode) ==
    IF read_only_mode THEN auto ELSE TRUE

\* mutant of OpenAutoCompaction: the option is built with false
OpenAutoCompactionEnabled(cfg) == TRUE

\* db_opts.set_disable_auto_compactions(true): background compaction of a newly
\* opened instance
OpenAutoCompaction(cfg) == FALSE

\* mutant of VerifyCompatibility: a missing marker is accepted and not written
VerifyCompatibilityNoWrite(e, cfg) ==
    LET compatibility_bytes == CompatibilityBytes(cfg)
        found == DbGet(e, SentinelKey)
    IN  IF found = {} \/ found = {compatibility_bytes}
        THEN [ok |-> TRUE, found |-> found, eng |-> e]
        ELSE [ok |-> FALSE, found |-> found, eng |-> e]

\* DB::verify_compatibility: ok is FALSE when it panics
VerifyCompatibility(e, cfg) ==
    LET compatibility_bytes == CompatibilityBytes(cfg)
        found == DbGet(e, SentinelKey)
    IN  IF found = {}
        THEN [ok |-> TRUE, found |-> found,
              eng |-> DbPut(e, cfg.read_only, SentinelKey, compatibility_bytes)]
        ELSE IF found # {compatibility_bytes}
        THEN [ok |-> FALSE, found |-> found, eng |-> e]
        ELSE [ok |-> TRUE, found |-> found, eng |-> e]

\* DB::open as a function of the directory: can is FALSE when the engine
\* cannot be opened (the expect panics), ok is FALSE when open panics at all
DbOpen(e, cfg, lockHeld) ==
    LET can == IF cfg.read_only THEN CanOpenForReadOnly(e) ELSE CanOpen(e, cfg, lockHeld)
        opened == IF cfg.read_only THEN EngineOpenForReadOnly(e) ELSE EngineOpen(e)
        v == VerifyCompatibility(opened, cfg)
    IN  IF can
        THEN [can |-> TRUE, ok |-> v.ok, found |-> v.found, eng |-> v.eng]
        ELSE [can |-> FALSE, ok |-> FALSE, found |-> {}, eng |-> e]

---------------------------------------------------------------------------
(* The cursors.  The engine iterator is a position in the rows of the      *)
(* instance in ascending key order: 1..Len(rows) is on a row, anything     *)
(* else is not valid.  A cursor record holds the fields of ScanIterator /  *)
(* ReverseScanIterator (prefix, the iterator's position, done) and, as     *)
(* history, the method that made it, its second argument and what the     *)
(* last call of next returned ("new" before the first call).              *)

NoCursor == [kind |-> "none", prefix |-> << >>, bound |-> << >>, pos |-> 0,
             done |-> FALSE, returned |-> "new"]

\* iter.valid()
Valid(rows, pos) == pos \in 1..Len(rows)

\* seek(key): the first row whose key is >= key, or past the end
Seek(rows, key) ==
    LET at == {i \in 1..Len(rows) : LexLeq(key, rows[i].key)}
    IN  IF at = {} THEN Len(rows) + 1 ELSE CHOOSE i \in at : \A j \in at : i <= j

\* seek_for_prev(key): the last row whose key is <= key, or before the start
SeekForPrev(rows, key) ==
    LET at == {i \in 1..Len(rows) : LexLeq(rows[i].key, key)}
    IN  IF at = {} THEN 0 ELSE CHOOSE i \in at : \A j \in at : j <= i

\* DB::iter_scan: db.prefix_iterator(prefix) seeks to prefix and moves forward
\* (no prefix extractor is configured, so the engine itself stops nowhere)
DbIterScan(rows, prefix) ==
    [kind |-> "scan", prefix |-> prefix, bound |-> prefix, pos |-> Seek(rows, prefix),
     done |-> FALSE, returned |-> "new"]

\* mutant of DbIterScanFrom: the iterator starts at prefix, not at start_at
DbIterScanFromPrefix(rows, prefix, start_at) ==
    [kind |-> "scan_from", prefix |-> prefix, bound |-> start_at,
     pos |-> Seek(rows, prefix), done |-> FALSE, returned |-> "new"]

\* DB::iter_scan_from
DbIterScanFrom(rows, prefix, start_at) ==
    [kind |-> "scan_from", prefix |-> prefix, bound |-> start_at,
     pos |-> Seek(rows, start_at), done |-> FALSE, returned |-> "new"]

\* mutant of DbIterScanReverse: seek in place of seek_for_prev
DbIterScanReverseSeek(rows, prefix, prefix_max) ==
    [kind |-> "reverse", prefix |-> prefix, bound |-> prefix_max,
     pos |-> Seek(rows, prefix_max), done |-> FALSE, returned |-> "new"]

\* DB::iter_scan_reverse
DbIterScanReverse(rows, prefix, prefix_max) ==
    [kind |-> "reverse", prefix |-> prefix, bound |-> prefix_max,
     pos |-> SeekForPrev(rows, prefix_max), done |-> FALSE, returned |-> "new"]

\* mutant of ScanIteratorNext: the prefix of the key is not checked
ScanIteratorNextUnchecked(c, rows) ==
    IF c.done \/ ~Valid(rows, c.pos) THEN [cursor |-> c, item |-> {}]
    ELSE [cursor |-> [c EXCEPT !.pos = @ + 1], item |-> {rows[c.pos]}]

\* mutant of ScanIteratorNext: done is not looked at
ScanIteratorNextNoLatch(c, rows) ==
    IF ~Valid(rows, c.pos) THEN [cursor |-> c, item |-> {}]
    ELSE LET row == rows[c.pos]
             advanced == [c EXCEPT !.pos = @ + 1]
         IN  IF ~StartsWith(row.key, c.prefix)
             THEN [cursor |-> [advanced EXCEPT !.done = TRUE], item |-> {}]
             ELSE [cursor |-> advanced, item |-> {row}]

\* ScanIterator::next: the cursor afterwards and the Option<DBRow> returned
ScanIteratorNext(c, rows) ==
    IF c.done THEN [cursor |-> c, item |-> {}]
    ELSE IF ~Valid(rows, c.pos) THEN [cursor |-> c, item |-> {}]
    ELSE LET row == rows[c.pos]
             advanced == [c EXCEPT !.pos = @ + 1]
         IN  IF ~StartsWith(row.key, c.prefix)
             THEN [cursor |-> [advanced EXCEPT !.done = TRUE], item |-> {}]
             ELSE [cursor |-> advanced, item |-> {row}]

\* mutant of ReverseScanIteratorNext: prev is called twice
ReverseScanIteratorNextSkips(c, rows) ==
    IF c.done \/ ~Valid(rows, c.pos) THEN [cursor |-> c, item |-> {}]
    ELSE LET row == rows[c.pos]
         IN  IF ~StartsWith(row.key, c.prefix)
             THEN [cursor |-> [c EXCEPT !.done = TRUE], item |-> {}]
             ELSE [cursor |-> [c EXCEPT !.pos = IF @ >= 2 THEN @ - 2 ELSE 0], item |-> {row}]

\* ReverseScanIterator::next: the cursor afterwards and the Option<DBRow> returned
ReverseScanIteratorNext(c, rows) ==
    IF c.done \/ ~Valid(rows, c.pos) THEN [cursor |-> c, item |-> {}]
    ELSE LET row == rows[c.pos]
         IN  IF ~StartsWith(row.key, c.prefix)
             THEN [cursor |-> [c EXCEPT !.done = TRUE], item |-> {}]
             ELSE [cursor |-> [c EXCEPT !.pos = @ - 1], item |-> {row}]

---------------------------------------------------------------------------
(* History records and state updates shared by the actions.               *)

OpRec(op, flush, fresh, found) ==
    [op |-> op, flush |-> flush, fresh |-> fresh, found |-> found, failed |-> FALSE]

SimpleOp(op) == OpRec(op, "none", FALSE, {})

\* the record of a call during which the engine reported a failure
FailedOp(op) == [SimpleOp(op) EXCEPT !.failed = TRUE]

SetEng(e) ==
    /\ dirExists' = e.dir
    /\ sst' = e.sst
    /\ wal' = e.wal
    /\ walSynced' = e.synced
    /\ mem' = e.mem

\* the directory lock is held by a writable instance of this handle
LockHeld == insts > 0 /\ ~config.read_only

\* the process panics with an instance open: the instance is dropped while
\* unwinding, or the process aborts and the instance dies with it
Panic(e, read_only) ==
    /\ hstate' = "Aborted"
    /\ insts' = 0
    /\ rpc' = "idle"
    /\ autoCompact' = FALSE
    /\ \/ SetEng(EngineDrop(e, read_only))
       \/ SetEng(EngineKill(e, Len(e.wal)))

\* the handle is open and no call is in progress
Ready == hstate = "Open" /\ rpc = "idle"

\* the log has room for one more batch (a read-only handle logs nothing)
LogRoom == config.read_only \/ Len(wal) < MaxWal

RowSeqs == UNION {[1..n -> DataRows] : n \in 1..MaxBatch}

\* the rows a handle has written, after one more batch
Shadowed(batch) == IF config.read_only THEN shadow ELSE ApplyBatch(shadow, batch)

---------------------------------------------------------------------------
(* The lifecycle model: one process at a time on one directory.           *)

Init ==
    /\ dirExists = FALSE
    /\ sst = {}
    /\ wal = << >>
    /\ walSynced = 0
    /\ hstate = "Closed"
    /\ config = [read_only |-> FALSE, light_mode |-> FALSE]
    /\ insts = 0
    /\ mem = {}
    /\ autoCompact = FALSE
    /\ rpc = "idle"
    /\ cursor = NoCursor
    /\ out = << >>
    /\ lastOp = SimpleOp("init")
    /\ shadow = {}
    /\ bulk = FALSE
    /\ wpc = [t \in Writers |-> "idle"]
    /\ wbatch = [t \in Writers |-> << >>]
    /\ wrows = [t \in Writers |-> << >>]
    /\ wflush = [t \in Writers |-> "none"]
    /\ wcalls = 0
    /\ wdone = << >>

\* DB::open
Open(cfg) ==
    /\ hstate \in {"Closed", "Aborted"}
    /\ config' = cfg
    /\ shadow' = {}
    /\ UNCHANGED <<cursorVars, writerVars>>
    /\ LET r == DbOpen(Eng, cfg, LockHeld)
       IN  /\ lastOp' = OpRec("open", "none", ~dirExists, r.found)
           /\ bulk' = (r.ok /\ ~cfg.read_only)
           /\ IF ~r.can
              THEN /\ hstate' = "Aborted"
                   /\ UNCHANGED <<diskVars, insts, mem, autoCompact, rpc>>
              ELSE IF r.ok
              THEN /\ hstate' = "Open"
                   /\ insts' = 1
                   /\ rpc' = "idle"
                   /\ autoCompact' = OpenAutoCompaction(cfg)
                   /\ SetEng(r.eng)
              ELSE Panic(r.eng, cfg.read_only)

\* DB::put
Put(key, value) ==
    /\ Ready /\ LogRoom
    /\ SetEng(DbPut(Eng, config.read_only, key, value))
    /\ lastOp' = SimpleOp("put")
    /\ shadow' = Shadowed(<<DBRow(key, value)>>)
    /\ bulk' = FALSE
    /\ UNCHANGED <<hstate, config, insts, autoCompact, rpc, cursorVars, writerVars>>

\* DB::put_sync
PutSync(key, value) ==
    /\ Ready /\ LogRoom
    /\ SetEng(DbPutSync(Eng, config.read_only, key, value))
    /\ lastOp' = SimpleOp("put_sync")
    /\ shadow' = Shadowed(<<DBRow(key, value)>>)
    /\ bulk' = FALSE
    /\ UNCHANGED <<hstate, config, insts, autoCompact, rpc, cursorVars, writerVars>>

\* DB::write
Write(rows, flush) ==
    /\ Ready
    /\ flush = "Enable" => LogRoom
    /\ \E sorted \in SortUnstableByKey(rows) :
          /\ SetEng(DbWrite(Eng, config.read_only, sorted, flush))
          /\ shadow' = Shadowed(sorted)
    /\ lastOp' = OpRec("write", flush, FALSE, {})
    /\ bulk' = (bulk /\ flush = "Disable")
    /\ UNCHANGED <<hstate, config, insts, autoCompact, rpc, cursorVars, writerVars>>

\* DB::flush
Flush ==
    /\ Ready
    /\ SetEng(DbFlush(Eng, config.read_only))
    /\ lastOp' = SimpleOp("flush")
    /\ bulk' = FALSE
    /\ UNCHANGED <<hstate, config, insts, autoCompact, rpc, cursorVars, shadow, writerVars>>

\* DB::full_compaction
FullCompaction ==
    /\ Ready
    /\ SetEng(DbFullCompaction(Eng, config.read_only))
    /\ lastOp' = SimpleOp("full_compaction")
    /\ UNCHANGED <<hstate, config, insts, autoCompact, rpc, cursorVars, shadow, bulk,
                   writerVars>>

\* DB::enable_auto_compaction
EnableAutoCompaction ==
    /\ Ready
    /\ autoCompact' = DbEnableAutoCompaction(autoCompact, config.read_only)
    /\ lastOp' = SimpleOp("enable_auto_compaction")
    /\ UNCHANGED <<diskVars, hstate, config, insts, mem, rpc, cursorVars, shadow, bulk,
                   writerVars>>

\* DB::reopen, first half: the right-hand side of the assignment opens a new
\* instance while self.db still holds the previous one
ReopenBegin ==
    /\ Ready
    /\ bulk' = FALSE
    /\ UNCHANGED <<config, cursorVars, shadow, writerVars>>
    /\ LET can == IF config.read_only THEN CanOpenForReadOnly(Eng)
                  ELSE CanOpen(Eng, config, LockHeld)
           opened == IF config.read_only THEN EngineOpenForReadOnly(Eng) ELSE EngineOpen(Eng)
       IN  IF can
           THEN /\ insts' = insts + 1
                /\ rpc' = "opened"
                /\ SetEng(opened)
                /\ lastOp' = SimpleOp("reopen_open")
                /\ UNCHANGED <<hstate, autoCompact>>
           ELSE /\ Panic(Eng, config.read_only)
                /\ lastOp' = SimpleOp("reopen")

\* DB::reopen, second half: the assignment drops the previous instance, then
\* verify_compatibility runs on the new one
ReopenEnd ==
    /\ hstate = "Open" /\ rpc = "opened"
    /\ bulk' = FALSE
    /\ UNCHANGED <<config, cursorVars, shadow, writerVars>>
    /\ LET v == VerifyCompatibility(Eng, config)
       IN  /\ lastOp' = OpRec("reopen", "none", FALSE, v.found)
           /\ IF v.ok
              THEN /\ hstate' = "Open"
                   /\ insts' = insts - 1
                   /\ rpc' = "idle"
                   /\ autoCompact' = OpenAutoCompaction(config)
                   /\ SetEng(v.eng)
              ELSE Panic(v.eng, config.read_only)

\* the engine flushes a memtable on its own, between two writes
BackgroundFlush ==
    /\ Ready /\ ~config.read_only /\ mem # {}
    /\ \A t \in Writers : wpc[t] # "logged"
    /\ SetEng(EngineFlush(Eng))
    /\ UNCHANGED <<hstate, config, insts, autoCompact, rpc, cursorVars, lastOp, shadow,
                   bulk, writerVars>>

\* the process is killed or the machine loses power with the handle open: the
\* log keeps its first n records
Crash(n) ==
    /\ hstate = "Open"
    /\ n \in walSynced..Len(wal)
    /\ SetEng(EngineKill(Eng, n))
    /\ hstate' = "Closed"
    /\ insts' = 0
    /\ rpc' = "idle"
    /\ autoCompact' = FALSE
    /\ lastOp' = SimpleOp("crash")
    /\ shadow' = {}
    /\ bulk' = FALSE
    /\ wpc' = [t \in Writers |-> "idle"]
    /\ wbatch' = [t \in Writers |-> << >>]
    /\ wrows' = [t \in Writers |-> << >>]
    /\ wflush' = [t \in Writers |-> "none"]
    /\ UNCHANGED <<config, cursorVars, wcalls, wdone>>

\* the process ends and the handle is dropped
Close ==
    /\ Ready
    /\ SetEng(EngineDrop(Eng, config.read_only))
    /\ hstate' = "Closed"
    /\ insts' = 0
    /\ autoCompact' = FALSE
    /\ lastOp' = SimpleOp("close")
    /\ shadow' = {}
    /\ bulk' = FALSE
    /\ UNCHANGED <<config, rpc, cursorVars, writerVars>>

Next ==
    \/ \E cfg \in Configs : Open(cfg)
    \/ \E r \in DataRows : Put(r.key, r.value)
    \/ \E r \in DataRows : PutSync(r.key, r.value)
    \/ \E rows \in RowSeqs, flush \in Flushes : Write(rows, flush)
    \/ Flush
    \/ FullCompaction
    \/ EnableAutoCompaction
    \/ ReopenBegin
    \/ ReopenEnd
    \/ BackgroundFlush
    \/ \E n \in 0..MaxWal : Crash(n)
    \/ Close

Spec == Init /\ [][Next]_vars

---------------------------------------------------------------------------
(* The lifecycle model with engine failures: any engine call of a mutating *)
(* method of a writable handle may report a failure (an I/O error, a full  *)
(* disk), which leaves the engine state as it was.                         *)

FailOps == {"write", "put", "put_sync", "flush", "enable_auto_compaction", "full_compaction"}

\* the method looks at the engine's result: write, flush, put, put_sync and
\* enable_auto_compaction unwrap it; full_compaction calls compact_range,
\* which returns nothing, and goes on
Unwraps(op) == op \in {"write", "put", "put_sync", "flush", "enable_auto_compaction"}

\* a call of method op on a writable handle during which the engine fails
EngineFailure(op) ==
    /\ Ready /\ ~config.read_only
    /\ lastOp' = FailedOp(op)
    /\ UNCHANGED <<config, cursorVars, shadow, writerVars>>
    /\ IF Unwraps(op)
       THEN Panic(Eng, FALSE) /\ bulk' = FALSE
       ELSE UNCHANGED <<diskVars, hstate, insts, mem, autoCompact, rpc, bulk>>

NextFault ==
    \/ Next
    \/ \E op \in FailOps : EngineFailure(op)

SpecFault == Init /\ [][NextFault]_vars

---------------------------------------------------------------------------
(* The concurrent model: threads share the handle and run write() step by  *)
(* step (the loop that fills the batch, then the engine's write, which    *)
(* logs the batch and then applies it to the memtable); the process may   *)
(* die at any step and the directory be opened again.  Every state is     *)
(* what a get from another thread can observe.                            *)

ConcKeys == {<<1>>, <<2>>}

\* the value the rows of the c-th write call carry
ValueOfCall(c) == <<c>>

\* the row sequences of the c-th write call: some of the keys, each once, in
\* any order
CallRows(c) ==
    {rows \in UNION {[1..n -> {DBRow(k, ValueOfCall(c)) : k \in ConcKeys}] :
                        n \in 1..Cardinality(ConcKeys)} :
        \A i, j \in 1..Len(rows) : rows[i].key = rows[j].key => i = j}

ConcConfigs == {cfg \in Configs : ~cfg.light_mode}

\* mutant of WriteLoopStep: each row is put in the store as the loop reaches it
WriteLoopStepDirect(e, batch, row) ==
    [eng |-> EngineWrite(e, <<row>>, FALSE, FALSE), batch |-> batch]

\* one turn of the for loop of write: the row goes in the batch, the store is
\* not touched
WriteLoopStep(e, batch, row) == [eng |-> e, batch |-> BatchPut(batch, row)]

\* DB::write up to the loop: the read-only return, the sort, the empty batch
WriteCall(t, rows, flush) ==
    /\ Ready /\ wpc[t] = "idle" /\ wcalls < MaxCalls
    /\ wcalls' = wcalls + 1
    /\ IF config.read_only
       THEN UNCHANGED <<wpc, wbatch, wrows, wflush>>
       ELSE /\ \E sorted \in SortUnstableByKey(rows) : wrows' = [wrows EXCEPT ![t] = sorted]
            /\ wbatch' = [wbatch EXCEPT ![t] = << >>]
            /\ wflush' = [wflush EXCEPT ![t] = flush]
            /\ wpc' = [wpc EXCEPT ![t] = "build"]
    /\ UNCHANGED <<diskVars, handleVars, cursorVars, lastOp, shadow, bulk, wdone>>

\* DB::write, one turn of the loop
WritePut(t) ==
    /\ hstate = "Open" /\ wpc[t] = "build" /\ wrows[t] # << >>
    /\ LET r == WriteLoopStep(Eng, wbatch[t], Head(wrows[t]))
       IN  /\ SetEng(r.eng)
           /\ wbatch' = [wbatch EXCEPT ![t] = r.batch]
    /\ wrows' = [wrows EXCEPT ![t] = Tail(@)]
    /\ UNCHANGED <<hstate, config, insts, autoCompact, rpc, cursorVars, lastOp, shadow, bulk,
                   wpc, wflush, wcalls, wdone>>

\* DB::write, db.write_opt enters the engine's write path (one writer at a
\* time) and logs the batch
WriteLog(t) ==
    /\ hstate = "Open" /\ wpc[t] = "build" /\ wrows[t] = << >>
    /\ \A u \in Writers : wpc[u] # "logged"
    /\ wflush[t] = "Enable" => LogRoom
    /\ LET do_flush == (wflush[t] = "Enable")
       IN  SetEng(EngineLog(Eng, wbatch[t], do_flush, ~do_flush))
    /\ wpc' = [wpc EXCEPT ![t] = "logged"]
    /\ wdone' = Append(wdone, wbatch[t])
    /\ UNCHANGED <<hstate, config, insts, autoCompact, rpc, cursorVars, lastOp, shadow, bulk,
                   wbatch, wrows, wflush, wcalls>>

\* DB::write, db.write_opt applies the batch to the memtable and returns
WriteApply(t) ==
    /\ hstate = "Open" /\ wpc[t] = "logged"
    /\ SetEng(EngineApply(Eng, wbatch[t]))
    /\ wpc' = [wpc EXCEPT ![t] = "idle"]
    /\ wbatch' = [wbatch EXCEPT ![t] = << >>]
    /\ wflush' = [wflush EXCEPT ![t] = "none"]
    /\ lastOp' = OpRec("write", wflush[t], FALSE, {})
    /\ UNCHANGED <<hstate, config, insts, autoCompact, rpc, cursorVars, shadow, bulk,
                   wrows, wcalls, wdone>>

NextConc ==
    \/ \E cfg \in ConcConfigs : Open(cfg)
    \/ \E t \in Writers, flush \in Flushes : \E rows \in CallRows(wcalls + 1) :
          WriteCall(t, rows, flush)
    \/ \E t \in Writers : WritePut(t)
    \/ \E t \in Writers : WriteLog(t)
    \/ \E t \in Writers : WriteApply(t)
    \/ BackgroundFlush
    \/ \E n \in 0..MaxWal : Crash(n)

SpecConc == Init /\ [][NextConc]_vars

---------------------------------------------------------------------------
(* Properties of the concurrent model.                                     *)

\* the batches of wdone whose positions are in sub, applied in commit order
\* from position i on
RECURSIVE ApplyCommitted(_, _, _)
ApplyCommitted(store, i, sub) ==
    IF i > Len(wdone) THEN store
    ELSE ApplyCommitted(IF i \in sub THEN ApplyBatch(store, wdone[i]) ELSE store, i + 1, sub)

\* C2: whatever a get can observe, in a running process at any step of
\* concurrent write calls or after a crash at any step and a restart, is the
\* result of whole batches: the data rows of the store are what some of the
\* committed batches leave when each is applied with all of its rows, so no
\* batch is ever seen with only a part of its rows.
C2_WriteIsAtomic ==
    hstate = "Open" =>
       \E sub \in SUBSET (1..Len(wdone)) :
          {r \in View : r.key \in ConcKeys} = ApplyCommitted({}, 1, sub)

\* C2 witness: a committed batch of two keys is visible with both of its rows
\* while another write call is half way through its loop.
C2_Witness ==
    /\ hstate = "Open"
    /\ \E b \in 1..Len(wdone) :
          /\ KeysOf(wdone[b]) = ConcKeys
          /\ \A i \in 1..Len(wdone[b]) : wdone[b][i] \in View
    /\ \E t \in Writers :
          wpc[t] = "build" /\ wbatch[t] # << >> /\ wrows[t] # << >>

---------------------------------------------------------------------------
(* Properties of the lifecycle model.                                      *)

AllKeys == DataKeys \cup {SentinelKey}

\* a call of one of the mutating methods of the handle
MutatingCall ==
    \/ \E r \in DataRows : Put(r.key, r.value) \/ PutSync(r.key, r.value)
    \/ \E rows \in RowSeqs, flush \in Flushes : Write(rows, flush)
    \/ Flush
    \/ FullCompaction
    \/ EnableAutoCompaction

\* the handle a new process gets from DB::open(cfg) after the process of this
\* state died with the log cut to its first n records
Restarted(e, n, cfg) == DbOpen(EngineKill(e, n), cfg, FALSE)

\* C1: on a read-only handle every call of put, put_sync, write (either flush
\* policy), flush, full_compaction and enable_auto_compaction returns normally
\* and leaves get unchanged for every key, the sentinel key included.
C1_ReadOnlyCallsAreNoOps ==
    [][(hstate = "Open" /\ config.read_only /\ MutatingCall) =>
          /\ hstate' = "Open"
          /\ \A k \in AllKeys : DbGet(Eng', k) = DbGet(Eng, k)]_vars

\* C1 witness: a read-only handle on a directory that holds a data row and the
\* marker, right after a write call.
C1_Witness ==
    /\ hstate = "Open" /\ config.read_only /\ lastOp.op = "write"
    /\ DbGet(Eng, SentinelKey) # {}
    /\ \E k \in DataKeys : DbGet(Eng, k) # {}

\* C3: after write(rows, DBFlush::Enable) on a writable handle, whatever the log
\* loses in a crash right after the call and whatever config the directory is
\* opened with next, a successful open reads, for every key of rows, the value
\* the batch wrote (the one get returned before the crash).  A step is such a
\* write when it is a step of Write(rows, "Enable"), which records itself in
\* lastOp.
C3_DurableWriteSurvivesRestart ==
    [][\A rows \in RowSeqs :
          (/\ ~config.read_only /\ lastOp'.op = "write" /\ lastOp'.flush = "Enable"
           /\ Write(rows, "Enable")) =>
             \A n \in walSynced'..Len(wal'), cfg \in Configs :
                LET r == Restarted(Eng', n, cfg)
                IN  r.ok => \A k \in KeysOf(rows) :
                               /\ DbGet(r.eng, k) = DbGet(Eng', k)
                               /\ \E v \in ValuesFor(rows, k) : DbGet(r.eng, k) = {v}]_vars

\* C3 witness: a writable handle right after a durable write whose value is in
\* no table file yet, behind an earlier record in the log.
C3_Witness ==
    /\ hstate = "Open" /\ ~config.read_only
    /\ lastOp.op = "write" /\ lastOp.flush = "Enable"
    /\ Len(wal) = 2 /\ walSynced = 2
    /\ \E k \in DataKeys : DbGet(Eng, k) # {} /\ Lookup(sst, k) # DbGet(Eng, k)

\* C4: right after write(rows, DBFlush::Disable) on a writable handle, with no
\* restart and no flush, get of every key of rows returns the value written.
\* A step is such a write when it is a step of Write(rows, "Disable"), which
\* records itself in lastOp.
C4_FastWriteReadBack ==
    [][\A rows \in RowSeqs :
          (/\ ~config.read_only /\ lastOp'.op = "write" /\ lastOp'.flush = "Disable"
           /\ Write(rows, "Disable")) =>
             \A k \in KeysOf(rows) : \E v \in ValuesFor(rows, k) : DbGet(Eng', k) = {v}]_vars

\* C4 witness: a writable handle right after a fast write, holding a data row
\* that is neither in a table file nor in the log.
C4_Witness ==
    /\ hstate = "Open" /\ ~config.read_only
    /\ lastOp.op = "write" /\ lastOp.flush = "Disable"
    /\ \E r \in mem : r.key \in DataKeys /\ r \notin sst /\ r \notin Replay({}, wal)

\* the marker the claim expects for a config: the version number in four
\* little-endian bytes, and one more byte iff light_mode
ExpectedMarker(cfg) ==
    IF cfg.light_mode THEN <<DB_VERSION, 0, 0, 0, 1>> ELSE <<DB_VERSION, 0, 0, 0>>

\* the marker the directory holds for the next open
StoredMarker == Lookup(Replay(sst, wal), SentinelKey)

\* C7: a writable open of a fresh directory succeeds and stores the expected
\* marker of its config; an open of a directory whose marker is the expected
\* one succeeds and leaves the marker as it is; an open of a directory whose
\* marker differs from the expected one aborts.
C7_CompatibilityProtocol ==
    [][\A cfg \in Configs :
          Open(cfg) =>
             /\ (~dirExists /\ ~cfg.read_only) =>
                   (hstate' = "Open" /\ DbGet(Eng', SentinelKey) = {ExpectedMarker(cfg)})
             /\ (dirExists /\ StoredMarker = {ExpectedMarker(cfg)}) =>
                   (hstate' = "Open" /\ DbGet(Eng', SentinelKey) = StoredMarker)
             /\ (dirExists /\ StoredMarker \notin {{}, {ExpectedMarker(cfg)}}) =>
                   hstate' = "Aborted"]_vars

\* C7 witness: an open without light_mode aborted on a marker written with
\* light_mode.
C7_Witness ==
    /\ hstate = "Aborted" /\ lastOp.op = "open" /\ ~config.light_mode
    /\ lastOp.found = {<<1, 0, 0, 0, 1>>}

\* C8: open on a path with no directory aborts and creates nothing when
\* read_only is set, and creates the directory and succeeds otherwise.
C8_OpenMissingDirectory ==
    [][\A cfg \in Configs :
          (Open(cfg) /\ ~dirExists) =>
             IF cfg.read_only THEN hstate' = "Aborted" /\ ~dirExists'
             ELSE hstate' = "Open" /\ dirExists']_vars

\* C8 witness: a read-only open of a missing directory has aborted.
C8_Witness ==
    /\ lastOp.op = "open" /\ lastOp.fresh /\ config.read_only
    /\ hstate = "Aborted" /\ ~dirExists

\* C9: on a writable handle enable_auto_compaction and full_compaction leave get
\* unchanged for every key, and after them every row written through the handle
\* is read back with its last written value.
C9_CompactionKeepsRows ==
    [][(hstate = "Open" /\ ~config.read_only /\ (EnableAutoCompaction \/ FullCompaction)) =>
          /\ \A k \in AllKeys : DbGet(Eng', k) = DbGet(Eng, k)
          /\ \A row \in shadow' : DbGet(Eng', row.key) = {row.value}]_vars

\* C9 witness: the bulk-load scenario has run: only fast writes since the open,
\* then enable_auto_compaction, then full_compaction.
C9_Witness ==
    /\ hstate = "Open" /\ ~config.read_only /\ bulk
    /\ lastOp.op = "full_compaction" /\ autoCompact
    /\ shadow # {} /\ shadow \subseteq sst

\* C10 as stated: a handle never has two engine instances open on the
\* directory, and reopen ends with the handle Open.
C10_ReopenClosesBeforeOpening ==
    /\ insts <= 1
    /\ lastOp.op = "reopen" => hstate = "Open"

\* C11 as stated: reopen on a writable handle that has written rows returns,
\* and get on the handle then returns the last value written for every key
\* written before the reopen.
C11_ReopenReflectsCommitted ==
    (lastOp.op = "reopen" /\ ~config.read_only /\ shadow # {}) =>
       /\ hstate = "Open"
       /\ \A row \in shadow : DbGet(Eng, row.key) = {row.value}

\* C12 as stated: once an open has written the marker on first use of a
\* directory and returned, no crash leaves the directory without the marker.
C12_MarkerCommittedDurably ==
    (hstate = "Open" /\ ~config.read_only /\ lastOp.op = "open" /\ lastOp.found = {}) =>
       \A n \in walSynced..Len(wal) :
          LET e == EngineKill(Eng, n)
          IN  Lookup(Replay(e.sst, e.wal), SentinelKey) # {}

\* C13 as stated: on a writable handle no call of write, put, put_sync, flush,
\* enable_auto_compaction or full_compaction returns normally once the engine
\* has reported a failure to it; the process is brought down.
C13_EngineFailureIsFatal ==
    lastOp.failed => hstate = "Aborted"

\* C17: after flush() on a writable handle, whatever the log loses in a crash
\* right after the call and whatever config the directory is opened with next,
\* a successful open reads the last value written for every key written
\* through the handle before the flush (by put, put_sync or write with either
\* policy).  A step is such a flush when it is a step of Flush, which records
\* itself in lastOp.
C17_FlushPersists ==
    [][(~config.read_only /\ lastOp'.op = "flush" /\ Flush) =>
          \A n \in walSynced'..Len(wal'), cfg \in Configs :
             LET r == Restarted(Eng', n, cfg)
             IN  r.ok => \A row \in shadow' : DbGet(r.eng, row.key) = {row.value}]_vars

\* C17 witness: a writable handle right after flush, with rows written through
\* it, all of them in table files and none in the memtable or the log.
C17_Witness ==
    /\ hstate = "Open" /\ ~config.read_only /\ lastOp.op = "flush"
    /\ shadow # {} /\ shadow \subseteq sst
    /\ mem = {} /\ wal = << >>

\* C18 as stated: a handle that open or reopen has returned, in either mode,
\* reads the expected marker of its config under the sentinel key.
C18_MarkerAfterEveryOpen ==
    Ready => DbGet(Eng, SentinelKey) = {ExpectedMarker(config)}

\* C18, amended: a writable handle that open or reopen has returned reads the
\* expected marker of its config under the sentinel key; a read-only handle
\* reads the expected marker or, when the directory held none, nothing, since
\* in read-only mode verify_compatibility writes nothing.
C18_MarkerAfterWritableOpen ==
    Ready => IF config.read_only
             THEN DbGet(Eng, SentinelKey) \subseteq {ExpectedMarker(config)}
             ELSE DbGet(Eng, SentinelKey) = {ExpectedMarker(config)}

\* C18 witness: a read-only open has returned a handle on an existing
\* directory that holds no marker.
C18_Witness ==
    /\ Ready /\ config.read_only /\ lastOp.op = "open" /\ dirExists
    /\ lastOp.found = {} /\ DbGet(Eng, SentinelKey) = {}

\* C20: background compaction becomes enabled only by a call of
\* enable_auto_compaction on a writable handle; every step that ends an open
\* or a reopen leaves it disabled; it is never enabled on a read-only handle.
\* So in every state where it is enabled, enable_auto_compaction was called on
\* a writable handle since the last open or reopen, and no other call has
\* switched it on.
C20_AutoCompactionOnlyOnRequest ==
    [][/\ (autoCompact' /\ ~autoCompact) =>
             (EnableAutoCompaction /\ ~config.read_only /\ hstate = "Open")
       /\ lastOp'.op \in {"open", "reopen"} => ~autoCompact'
       /\ config'.read_only => ~autoCompact']_vars

\* C20 witness: background compaction, enabled earlier on a writable handle, is
\* still enabled after a later write and flush.
C20_Witness ==
    /\ hstate = "Open" /\ ~config.read_only /\ autoCompact
    /\ lastOp.op = "flush" /\ shadow # {}

---------------------------------------------------------------------------
(* The scan model: a handle open on a store drawn from the bounded sets,   *)
(* one cursor made on it and advanced until it is exhausted and beyond.   *)
(* Nothing writes while the cursor lives, so the rows the iterator walks  *)
(* are the rows of the instance.                                           *)

\* the stores of at most MaxRows data rows, one row per key
RECURSIVE StoresOf(_)
StoresOf(n) ==
    IF n = 0 THEN {{}}
    ELSE LET smaller == StoresOf(n - 1)
         IN  smaller \cup
             {st \cup {DBRow(k, v)} : st \in {t \in smaller : Cardinality(t) = n - 1},
                                      k \in ScanKeys, v \in ScanVals}

ScanStores == {st \in StoresOf(MaxRows) : UniqueKeys(st)}

InitScan ==
    /\ dirExists = TRUE
    /\ config = [read_only |-> FALSE, light_mode |-> FALSE]
    /\ \E st \in ScanStores : sst = st \cup {DBRow(SentinelKey, CompatibilityBytes(config))}
    /\ wal = << >>
    /\ walSynced = 0
    /\ hstate = "Open"
    /\ insts = 1
    /\ mem = {}
    /\ autoCompact = FALSE
    /\ rpc = "idle"
    /\ cursor = NoCursor
    /\ out = << >>
    /\ lastOp = SimpleOp("open")
    /\ shadow = {}
    /\ bulk = FALSE
    /\ wpc = [t \in Writers |-> "idle"]
    /\ wbatch = [t \in Writers |-> << >>]
    /\ wrows = [t \in Writers |-> << >>]
    /\ wflush = [t \in Writers |-> "none"]
    /\ wcalls = 0
    /\ wdone = << >>

\* DB::iter_scan
IterScan(prefix) ==
    /\ Ready /\ cursor.kind = "none"
    /\ cursor' = DbIterScan(SortedRows(View), prefix)
    /\ out' = << >>
    /\ UNCHANGED <<diskVars, handleVars, lastOp, shadow, bulk, writerVars>>

\* DB::iter_scan_from
IterScanFrom(prefix, start_at) ==
    /\ Ready /\ cursor.kind = "none"
    /\ cursor' = DbIterScanFrom(SortedRows(View), prefix, start_at)
    /\ out' = << >>
    /\ UNCHANGED <<diskVars, handleVars, lastOp, shadow, bulk, writerVars>>

\* DB::iter_scan_reverse
IterScanReverse(prefix, prefix_max) ==
    /\ Ready /\ cursor.kind = "none"
    /\ cursor' = DbIterScanReverse(SortedRows(View), prefix, prefix_max)
    /\ out' = << >>
    /\ UNCHANGED <<diskVars, handleVars, lastOp, shadow, bulk, writerVars>>

\* what a call of next leaves: the cursor, and the row appended to the rows
\* yielded so far
Yield(r) ==
    /\ cursor' = [r.cursor EXCEPT !.returned = IF r.item = {} THEN "none" ELSE "some"]
    /\ out' = IF r.item = {} THEN out ELSE Append(out, CHOOSE row \in r.item : TRUE)

\* a call of ScanIterator::next
ScanNext ==
    /\ Ready /\ cursor.kind \in {"scan", "scan_from"}
    /\ Yield(ScanIteratorNext(cursor, SortedRows(View)))
    /\ UNCHANGED <<diskVars, handleVars, lastOp, shadow, bulk, writerVars>>

\* a call of ReverseScanIterator::next
ReverseNext ==
    /\ Ready /\ cursor.kind = "reverse"
    /\ Yield(ReverseScanIteratorNext(cursor, SortedRows(View)))
    /\ UNCHANGED <<diskVars, handleVars, lastOp, shadow, bulk, writerVars>>

NextScan ==
    \/ \E prefix \in ScanArgs : IterScan(prefix)
    \/ \E prefix \in ScanArgs, start_at \in ScanArgs : IterScanFrom(prefix, start_at)
    \/ \E prefix \in ScanArgs, prefix_max \in ScanArgs : IterScanReverse(prefix, prefix_max)
    \/ ScanNext
    \/ ReverseNext

SpecScan == InitScan /\ [][NextScan]_vars

---------------------------------------------------------------------------
(* Properties of the scan model.                                           *)

Yielded == {out[i] : i \in 1..Len(out)}

\* C5: the rows iter_scan(prefix) has yielded are stored rows whose keys start
\* with prefix, in strictly ascending key order, and once next has returned
\* nothing they are all the stored rows whose keys start with prefix.
C5_IterScanYieldsThePrefix ==
    cursor.kind = "scan" =>
       /\ \A i \in 1..Len(out) : out[i] \in View /\ StartsWith(out[i].key, cursor.prefix)
       /\ \A i \in 1..Len(out) : \A j \in 1..Len(out) :
             i < j => LexLess(out[i].key, out[j].key)
       /\ cursor.returned = "none" =>
             Yielded = {r \in View : StartsWith(r.key, cursor.prefix)}

\* C5 witness: a drained iter_scan that yielded two rows, with a stored key
\* below the prefix and a stored key above it that does not match.
C5_Witness ==
    /\ cursor.kind = "scan" /\ cursor.returned = "none" /\ Len(out) = 2
    /\ \E r \in View : LexLess(r.key, cursor.prefix)
    /\ \E r \in View : LexLess(cursor.prefix, r.key) /\ ~StartsWith(r.key, cursor.prefix)

\* C6: the rows iter_scan_reverse(prefix, prefix_max) has yielded are stored
\* rows in strictly descending key order, each key <= prefix_max and starting
\* with prefix; and if the key prefix_max is stored and starts with prefix, the
\* first call of next yields its row.
C6_IterScanReverseBounded ==
    cursor.kind = "reverse" =>
       /\ \A i \in 1..Len(out) :
             /\ out[i] \in View
             /\ LexLeq(out[i].key, cursor.bound)
             /\ StartsWith(out[i].key, cursor.prefix)
       /\ \A i \in 1..Len(out) : \A j \in 1..Len(out) :
             i < j => LexLess(out[j].key, out[i].key)
       /\ (/\ cursor.returned # "new"
           /\ cursor.bound \in StoreKeys(View)
           /\ StartsWith(cursor.bound, cursor.prefix)) =>
             (Len(out) >= 1 /\ out[1].key = cursor.bound)

\* C6 witness: a reverse scan that started on the stored key prefix_max and
\* yielded two rows, with a stored key above prefix_max.
C6_Witness ==
    /\ cursor.kind = "reverse" /\ Len(out) = 2
    /\ out[1].key = cursor.bound
    /\ \E r \in View : LexLess(cursor.bound, r.key)

\* what the next call of next on the cursor would return
NextCall ==
    IF cursor.kind = "reverse" THEN ReverseScanIteratorNext(cursor, SortedRows(View))
    ELSE ScanIteratorNext(cursor, SortedRows(View))

\* C14: for a forward and for a reverse cursor, once a call of next has
\* returned nothing the next call returns nothing too, and so does every later
\* one; a cursor whose done flag is set stays done and yields nothing.
C14_CursorsLatch ==
    /\ cursor.returned = "none" => (NextCall.item = {} /\ NextCall.cursor = cursor)
    /\ cursor.done => (NextCall.item = {} /\ NextCall.cursor.done)

\* C14 witness: a forward cursor that returned nothing on a key that does not
\* match the prefix, standing on a stored row that does match it.
C14_Witness ==
    /\ cursor.kind = "scan_from" /\ cursor.returned = "none" /\ cursor.done
    /\ Valid(SortedRows(View), cursor.pos)
    /\ StartsWith(SortedRows(View)[cursor.pos].key, cursor.prefix)

\* the stored rows iter_scan_from(prefix, start_at) is to yield
FromRows == {r \in View : StartsWith(r.key, cursor.prefix) /\ LexLeq(cursor.bound, r.key)}

\* the rows yielded so far are rows to yield, in strictly ascending key order,
\* and all of them once next has returned nothing
ScanFromExact ==
    /\ \A i \in 1..Len(out) : out[i] \in FromRows
    /\ \A i \in 1..Len(out) : \A j \in 1..Len(out) :
          i < j => LexLess(out[i].key, out[j].key)
    /\ cursor.returned = "none" => Yielded = FromRows

\* C15 as stated: iter_scan_from(prefix, start_at) yields exactly the stored
\* rows whose key starts with prefix and is >= start_at, in strictly ascending
\* key order, whatever the relation between start_at and prefix.
C15_IterScanFromAnyStart ==
    cursor.kind = "scan_from" => ScanFromExact

\* C15, amended: when start_at is not below prefix (a scan resumed at a key
\* seen before), iter_scan_from(prefix, start_at) yields exactly the stored
\* rows whose key starts with prefix and is >= start_at, in strictly ascending
\* key order.
C15_IterScanFromResumes ==
    (cursor.kind = "scan_from" /\ LexLeq(cursor.prefix, cursor.bound)) => ScanFromExact

\* C15 witness: a drained scan resumed above the prefix that yielded a row and
\* left out a matching row below start_at.
C15_Witness ==
    /\ cursor.kind = "scan_from" /\ cursor.returned = "none"
    /\ LexLess(cursor.prefix, cursor.bound)
    /\ Len(out) >= 1
    /\ \E r \in View : StartsWith(r.key, cursor.prefix) /\ LexLess(r.key, cursor.bound)

\* the stored rows whose key starts with prefix and is <= prefix_max
ReverseRows == {r \in View : StartsWith(r.key, cursor.prefix) /\ LexLeq(r.key, cursor.bound)}

\* if there are such rows, the first call of next yields the one with the
\* greatest key, and a drained cursor has yielded them all
MostRecentFirst ==
    /\ (ReverseRows # {} /\ cursor.returned # "new") =>
          /\ Len(out) >= 1
          /\ out[1] \in ReverseRows
          /\ \A r \in ReverseRows : LexLeq(r.key, out[1].key)
    /\ (ReverseRows # {} /\ cursor.returned = "none") => Yielded = ReverseRows

\* C16 as stated: for every store, prefix and prefix_max, if some stored key
\* starts with prefix and is <= prefix_max, iter_scan_reverse(prefix, prefix_max)
\* yields the row with the greatest such key first, and every such row when
\* drained.
C16_ReverseFindsMostRecent ==
    cursor.kind = "reverse" => MostRecentFirst

\* C16, amended: when prefix_max itself starts with prefix, and some stored key
\* starts with prefix and is <= prefix_max, iter_scan_reverse(prefix, prefix_max)
\* yields the row with the greatest such key first, and every such row when
\* drained.
C16_ReverseFindsMostRecentUnderPrefix ==
    (cursor.kind = "reverse" /\ StartsWith(cursor.bound, cursor.prefix)) => MostRecentFirst

\* C16 witness: a drained reverse scan whose prefix_max starts with the prefix
\* and is not stored, that yielded two rows, with a stored key above prefix_max.
C16_Witness ==
    /\ cursor.kind = "reverse" /\ cursor.returned = "none"
    /\ StartsWith(cursor.bound, cursor.prefix)
    /\ cursor.bound \notin StoreKeys(View)
    /\ Len(out) = 2
    /\ \E r \in View : LexLess(cursor.bound, r.key)

---------------------------------------------------------------------------
(* The batch-order model: write as a function of the store and the batch. *)
(* A writable handle is open on a store drawn from the bounded sets and   *)
(* one batch, drawn from the bounded sets, is written to it.              *)

OrderRows == {DBRow(k, v) : k \in ConcKeys, v \in ScanVals}

OrderStores == {st \in SUBSET OrderRows : UniqueKeys(st)}

\* the batches a caller may supply
OrderSeqs == UNION {[1..n -> OrderRows] : n \in 1..MaxBatch}

InitOrder ==
    /\ dirExists = TRUE
    /\ config = [read_only |-> FALSE, light_mode |-> FALSE]
    /\ \E st \in OrderStores : sst = st \cup {DBRow(SentinelKey, CompatibilityBytes(config))}
    /\ wal = << >>
    /\ walSynced = 0
    /\ hstate = "Open"
    /\ insts = 1
    /\ mem = {}
    /\ autoCompact = FALSE
    /\ rpc = "idle"
    /\ cursor = NoCursor
    /\ out = << >>
    /\ lastOp = SimpleOp("open")
    /\ shadow = {}
    /\ bulk = FALSE
    /\ wpc = [t \in Writers |-> "idle"]
    /\ wbatch = [t \in Writers |-> << >>]
    /\ wrows = [t \in Writers |-> << >>]
    /\ wflush = [t \in Writers |-> "none"]
    /\ wcalls = 0
    /\ wdone = << >>

\* DB::write, called once on the handle
WriteOnce(rows, flush) == lastOp.op = "open" /\ Write(rows, flush)

NextOrder == \E rows \in OrderSeqs, flush \in Flushes : WriteOnce(rows, flush)

SpecOrder == InitOrder /\ [][NextOrder]_vars

\* the orders in which a caller can supply the rows of a batch
Permutations(rows) ==
    {[i \in 1..Len(rows) |-> rows[f[i]]] :
        f \in {g \in [1..Len(rows) -> 1..Len(rows)] :
                  \A i, j \in 1..Len(rows) : g[i] = g[j] => i = j}}

\* no key of the batch comes with two different values
SingleValued(rows) ==
    \A i, j \in 1..Len(rows) : rows[i].key = rows[j].key => rows[i].value = rows[j].value

\* whatever order the rows are supplied in and whatever the sort makes of it,
\* the write leaves the same result of get for every key as this step did
SameInAnyOrder(rows, flush) ==
    \A perm \in Permutations(rows) : \A sorted \in SortUnstableByKey(perm) :
       \A k \in ConcKeys \cup {SentinelKey} :
          DbGet(DbWrite(Eng, config.read_only, sorted, flush), k) = DbGet(Eng', k)

\* C19 as stated: for every store, every batch (batches with several rows of
\* one key and different values included) and every permutation of it, write
\* leaves the same result of get for every key.
C19_WriteOrderIndependent ==
    [][\A rows \in OrderSeqs, flush \in Flushes :
          WriteOnce(rows, flush) => SameInAnyOrder(rows, flush)]_vars

\* C19, amended: for every store, every batch in which no key comes with two
\* different values and every permutation of it, write leaves the same result
\* of get for every key.
C19_WriteOrderIndependentSingleValued ==
    [][\A rows \in OrderSeqs, flush \in Flushes :
          (SingleValued(rows) /\ WriteOnce(rows, flush)) => SameInAnyOrder(rows, flush)]_vars

\* C19 witness: a batch with both keys has been written over a store that held
\* other values for them.
C19_Witness ==
    /\ lastOp.op = "write" /\ StoreKeys(mem) = ConcKeys
    /\ \A r \in mem : \E q \in sst : q.key = r.key /\ q.value # r.value

===========================================================================
